---- MODULE Spec2Model ----
(***************************************************************************)
(* A model of lab.py, a small Scheme interpreter: parse builds a tree from *)
(* tokens, evaluate walks the tree against a chain of Frames.              *)
(*                                                                         *)
(* evaluate is modelled as a small-step machine: `stack` holds one record  *)
(* per active Python invocation of evaluate (its tree, frame and the       *)
(* position inside the function body), so that the nesting depth of        *)
(* evaluate is Len(stack).  Frames, Functions objects and Pairs live in    *)
(* append-only heaps and are referred to by their index.  A raised         *)
(* exception unwinds every invocation at once: nothing in lab.py catches.  *)
(***************************************************************************)
EXTENDS Integers, Sequences, FiniteSets, TLC

\* ------------------------------------------------------------------------
\* Trees: the parser's output.  A Python str is a "sym", an int a "num",
\* True/False a "bool", a Nil object a "nil", a Python list a "list".
\* ------------------------------------------------------------------------
Sym(s) == [t |-> "sym", s |-> s, v |-> 0, xs |-> <<>>]
Num(n) == [t |-> "num", s |-> "", v |-> n, xs |-> <<>>]
Bool(b) == [t |-> "bool", s |-> "", v |-> IF b THEN 1 ELSE 0, xs |-> <<>>]
NilLit == [t |-> "nil", s |-> "", v |-> 0, xs |-> <<>>]
L(xs) == [t |-> "list", s |-> "", v |-> 0, xs |-> xs]

IsStr(tree) == tree.t = "sym"
IsList(tree) == tree.t = "list"
\* op == 'define' and the like: a comparison of tree[0] with a Python str
IsOp(tree, name) == IsList(tree) /\ Len(tree.xs) >= 1 /\ tree.xs[1] = Sym(name)
Rest(tree) == SubSeq(tree.xs, 2, Len(tree.xs))

\* ------------------------------------------------------------------------
\* Values.  A number is the rational n/d in lowest terms, kind "int" or
\* "float" (Python's true division yields a float); a bool counts as the
\* number 0 or 1; "none" is Python's None; "prim" n is the n-th builtin,
\* "clos" n the n-th Functions object, "pair" n the n-th Pair.
\* ------------------------------------------------------------------------
IntV(n) == [k |-> "int", n |-> n, d |-> 1]
BoolV(b) == [k |-> "bool", n |-> IF b THEN 1 ELSE 0, d |-> 1]
NilV == [k |-> "nil", n |-> 0, d |-> 1]
NoneV == [k |-> "none", n |-> 0, d |-> 1]
PrimV(i) == [k |-> "prim", n |-> i, d |-> 1]
ClosV(i) == [k |-> "clos", n |-> i, d |-> 1]
PairV(i) == [k |-> "pair", n |-> i, d |-> 1]

Abs(n) == IF n < 0 THEN -n ELSE n

RECURSIVE Gcd(_, _)
Gcd(a, b) == IF b = 0 THEN a ELSE Gcd(b, a % b)

\* the number n/d (d # 0) of kind k, in lowest terms with d > 0
NumV(k, n, d) ==
    LET g == Gcd(Abs(n), Abs(d))
        s == IF d < 0 THEN -1 ELSE 1
    IN  [k |-> k, n |-> (s * n) \div g, d |-> (s * d) \div g]

IsNum(v) == v.k \in {"int", "float", "bool"}
\* the kind of the result of arithmetic on a and b
Arith(a, b) == IF a.k = "float" \/ b.k = "float" THEN "float" ELSE "int"
Add(a, b) == NumV(Arith(a, b), a.n * b.d + b.n * a.d, a.d * b.d)
Sub(a, b) == NumV(Arith(a, b), a.n * b.d - b.n * a.d, a.d * b.d)
Mul(a, b) == NumV(Arith(a, b), a.n * b.n, a.d * b.d)
TrueDiv(a, b) == NumV("float", a.n * b.d, a.d * b.n)
Less(a, b) == a.n * b.d < b.n * a.d
\* Python's a == b: numbers by value, Nil equal to every Nil, None to None,
\* Pair and function objects by identity
PyEq(a, b) ==
    IF IsNum(a) /\ IsNum(b) THEN a.n = b.n /\ a.d = b.d
    ELSE a.k = b.k /\ a.n = b.n
\* Python's truth value: 0, 0.0, False and None are false; a Nil, a Pair and
\* a function are objects without __bool__ or __len__, hence true
Truthy(v) == IF IsNum(v) THEN v.n # 0 ELSE v.k # "none"

\* The conversion of number_or_symbol, on the tokens of the model
TokenInts == [tok \in {"0", "1", "2"} |-> CASE tok = "0" -> 0 [] tok = "1" -> 1 [] OTHER -> 2]
number_or_symbol(x) ==
    IF x \in DOMAIN TokenInts THEN Num(TokenInts[x])
    ELSE IF x = "#t" THEN Bool(TRUE)
    ELSE IF x = "#f" THEN Bool(FALSE)
    ELSE IF x = "nil" THEN NilLit
    ELSE Sym(x)

\* The value of a tree that is neither a str nor a list (evaluate's
\* `return tree`)
LiteralValue(tree) ==
    CASE tree.t = "num" -> IntV(tree.v)
      [] tree.t = "bool" -> BoolV(tree.v = 1)
      [] OTHER -> NilV

\* ------------------------------------------------------------------------
\* Builtins.  Each takes the list of argument values and the Pair heap and
\* yields [st, v, e, pairs]: st = "ok" with the value v, or st = "err" with
\* the name e of the exception raised.
\* ------------------------------------------------------------------------
Ok(v, ps) == [st |-> "ok", v |-> v, e |-> "", pairs |-> ps]
Err(e, ps) == [st |-> "err", v |-> NoneV, e |-> e, pairs |-> ps]

Tail1(s) == SubSeq(s, 2, Len(s))

\* sum(args, start): TypeError on the first operand that is no number
RECURSIVE SumFrom(_, _)
SumFrom(acc, args) ==
    IF Len(args) = 0 THEN [st |-> "ok", v |-> acc]
    ELSE IF ~IsNum(args[1]) THEN [st |-> "err", v |-> acc]
    ELSE SumFrom(Add(acc, args[1]), Tail1(args))

\* mult: ans = 1; ans *= item
RECURSIVE MultFrom(_, _)
MultFrom(acc, args) ==
    IF Len(args) = 0 THEN [st |-> "ok", v |-> acc]
    ELSE IF ~IsNum(args[1]) THEN [st |-> "err", v |-> acc]
    ELSE MultFrom(Mul(acc, args[1]), Tail1(args))

add_func(args, ps) ==
    LET r == SumFrom(IntV(0), args)
    IN  IF r.st = "ok" THEN Ok(r.v, ps) ELSE Err("TypeError", ps)

sub_func(args, ps) ==
    IF Len(args) = 1
    THEN IF IsNum(args[1]) THEN Ok(Sub(IntV(0), args[1]), ps) ELSE Err("TypeError", ps)
    ELSE IF Len(args) = 0 THEN Err("IndexError", ps)
    ELSE LET r == SumFrom(IntV(0), Tail1(args))
         IN  IF r.st = "ok" /\ IsNum(args[1]) THEN Ok(Sub(args[1], r.v), ps)
             ELSE Err("TypeError", ps)

mult(args, ps) ==
    LET r == MultFrom(IntV(1), args)
    IN  IF r.st = "ok" THEN Ok(r.v, ps) ELSE Err("TypeError", ps)

div(args, ps) ==
    IF Len(args) = 0 THEN Err("SchemeEvaluationError", ps)
    ELSE IF Len(args) = 1
    THEN IF ~IsNum(args[1]) THEN Err("TypeError", ps)
         ELSE IF args[1].n = 0 THEN Err("ZeroDivisionError", ps)
         ELSE Ok(TrueDiv(IntV(1), args[1]), ps)
    ELSE LET r == MultFrom(IntV(1), Tail1(args))
         IN  IF r.st # "ok" \/ ~IsNum(args[1]) THEN Err("TypeError", ps)
             ELSE IF r.v.n = 0 THEN Err("ZeroDivisionError", ps)
             ELSE Ok(TrueDiv(args[1], r.v), ps)

\* cmp(pre, cur) of gt, lt, ge, le, equal: the test that makes op_helper
\* answer False
Cmp(rel, a, b) ==
    CASE rel = ">" -> ~Less(b, a)
      [] rel = "<" -> ~Less(a, b)
      [] rel = ">=" -> Less(a, b)
      [] rel = "<=" -> Less(b, a)
      [] OTHER -> ~PyEq(a, b)

\* the loop of op_helper: "T", "F" or "TypeError" (an ordering of operands
\* that are not numbers)
RECURSIVE OpLoop(_, _, _)
OpLoop(rel, pre, args) ==
    IF Len(args) = 0 THEN "T"
    ELSE IF rel # "equal?" /\ ~(IsNum(pre) /\ IsNum(args[1])) THEN "TypeError"
    ELSE IF Cmp(rel, pre, args[1]) THEN "F"
    ELSE OpLoop(rel, args[1], Tail1(args))

op_helper(rel, args, ps) ==
    IF Len(args) <= 1 THEN Err("SchemeEvaluationError", ps)
    ELSE LET r == OpLoop(rel, args[1], Tail1(args))
         IN  IF r = "TypeError" THEN Err("TypeError", ps) ELSE Ok(BoolV(r = "T"), ps)

not_func(args, ps) ==
    IF Len(args) # 1 THEN Err("SchemeEvaluationError", ps)
    ELSE Ok(BoolV(~Truthy(args[1])), ps)

cons_func(args, ps) ==
    IF Len(args) # 2 THEN Err("SchemeEvaluationError", ps)
    ELSE Ok(PairV(Len(ps) + 1), Append(ps, [car |-> args[1], cdr |-> args[2]]))

car_func(args, ps) ==
    IF Len(args) # 1 THEN Err("SchemeEvaluationError", ps)
    ELSE IF args[1].k = "pair" THEN Ok(ps[args[1].n].car, ps)
    ELSE Err("SchemeEvaluationError", ps)

cdr_func(args, ps) ==
    IF Len(args) # 1 THEN Err("SchemeEvaluationError", ps)
    ELSE IF args[1].k = "pair" THEN Ok(ps[args[1].n].cdr, ps)
    ELSE Err("SchemeEvaluationError", ps)

\* list_func: the innermost cons is made first
RECURSIVE list_func(_, _)
list_func(args, ps) ==
    IF Len(args) = 0 THEN Ok(NilV, ps)
    ELSE LET r == list_func(Tail1(args), ps)
         IN  cons_func(<<args[1], r.v>>, r.pairs)

RECURSIVE is_list_helper(_, _)
is_list_helper(v, ps) ==
    IF v.k = "nil" THEN TRUE
    ELSE IF v.k # "pair" THEN FALSE
    ELSE is_list_helper(ps[v.n].cdr, ps)

is_list_func(args, ps) ==
    IF Len(args) # 1 THEN Err("SchemeEvaluationError", ps)
    ELSE Ok(BoolV(is_list_helper(args[1], ps)), ps)

\* inner of length_func
RECURSIVE ListLen(_, _)
ListLen(v, ps) == IF v.k = "nil" THEN 0 ELSE 1 + ListLen(ps[v.n].cdr, ps)

length_func(args, ps) ==
    IF Len(args) # 1 THEN Err("SchemeEvaluationError", ps)
    ELSE IF ~is_list_helper(args[1], ps) THEN Err("SchemeEvaluationError", ps)
    ELSE Ok(IntV(ListLen(args[1], ps)), ps)

\* inner of list_ref_func, from its while loop on: the index is a number
RECURSIVE RefLoop(_, _, _)
RefLoop(v, index, ps) ==
    IF Less(IntV(0), index)
    THEN LET i2 == Sub(index, IntV(1))
             v2 == ps[v.n].cdr
         IN  IF v2.k = "nil" /\ ~Less(i2, IntV(0)) THEN Err("SchemeEvaluationError", ps)
             ELSE IF v2.k = "nil" THEN Ok(NoneV, ps)
             ELSE RefLoop(v2, i2, ps)
    ELSE IF index.n = 0 THEN Ok(ps[v.n].car, ps)
    ELSE Ok(NoneV, ps)

list_ref_func(args, ps) ==
    IF Len(args) # 2 THEN Err("SchemeEvaluationError", ps)
    ELSE LET v == args[1]
             index == args[2]
         IN  IF ~is_list_helper(v, ps)
             THEN IF v.k = "pair" /\ PyEq(index, IntV(0)) THEN Ok(ps[v.n].car, ps)
                  ELSE Err("SchemeEvaluationError", ps)
             ELSE IF ~IsNum(index) THEN Err("TypeError", ps)
             ELSE IF Less(index, IntV(0)) THEN Err("SchemeEvaluationError", ps)
             ELSE IF v.k = "nil" THEN Err("SchemeEvaluationError", ps)
             ELSE RefLoop(v, index, ps)

\* the items of a proper list
RECURSIVE Items(_, _)
Items(v, ps) == IF v.k # "pair" THEN <<>> ELSE <<ps[v.n].car>> \o Items(ps[v.n].cdr, ps)

RECURSIVE AppendItems(_, _)
AppendItems(args, ps) ==
    IF Len(args) = 0 THEN [st |-> "ok", items |-> <<>>]
    ELSE IF ~is_list_helper(args[1], ps) THEN [st |-> "err", items |-> <<>>]
    ELSE LET r == AppendItems(Tail1(args), ps)
         IN  [st |-> r.st, items |-> Items(args[1], ps) \o r.items]

append_func(args, ps) ==
    IF Len(args) = 0 THEN Ok(NilV, ps)
    ELSE LET r == AppendItems(args, ps)
         IN  IF r.st = "err" THEN Err("SchemeEvaluationError", ps)
             ELSE list_func(r.items, ps)

\* scheme_builtins, in the order of the dict
BuiltinNames ==
    <<"+", "-", "*", "/", "equal?", ">", "<", ">=", "<=", "not", "cons",
      "car", "cdr", "list", "list?", "length", "list-ref", "append">>

\* func(exps) for a builtin
ApplyPrim(i, args, ps) ==
    LET name == BuiltinNames[i]
    IN  CASE name = "+" -> add_func(args, ps)
          [] name = "-" -> sub_func(args, ps)
          [] name = "*" -> mult(args, ps)
          [] name = "/" -> div(args, ps)
          [] name \in {"equal?", ">", "<", ">=", "<="} -> op_helper(name, args, ps)
          [] name = "not" -> not_func(args, ps)
          [] name = "cons" -> cons_func(args, ps)
          [] name = "car" -> car_func(args, ps)
          [] name = "cdr" -> cdr_func(args, ps)
          [] name = "list" -> list_func(args, ps)
          [] name = "list?" -> is_list_func(args, ps)
          [] name = "length" -> length_func(args, ps)
          [] name = "list-ref" -> list_ref_func(args, ps)
          [] OTHER -> append_func(args, ps)

\* ------------------------------------------------------------------------
\* Frames.  A frame is [parent, map]; parent 0 is Python's None.  A key of
\* the map is a tree that Python can hash: a str, an int or a bool (True
\* and 1 are the same key).
\* ------------------------------------------------------------------------
EmptyMap == [key \in {} |-> NoneV]
MapPut(m, key, v) == [x \in DOMAIN m \cup {key} |-> IF x = key THEN v ELSE m[x]]
MapDel(m, key) == [x \in DOMAIN m \ {key} |-> m[x]]

Hashable(tree) == tree.t \in {"sym", "num", "bool"}
KeyOf(tree) == IF tree.t = "bool" THEN Num(tree.v) ELSE tree

\* len(s) and list(s) of a Python str s.  Every name the programs of the
\* model iterate over has one character, or is one of the two listed here.
Chars(s) ==
    CASE s = ">=" -> << ">", "=" >>
      [] s = "<=" -> << "<", "=" >>
      [] OTHER -> << s >>

\* the items of a tree that Python iterates over (zip, for): the items of a
\* list, the characters of a str
Iter(tree) ==
    IF IsList(tree) THEN tree.xs
    ELSE [j \in 1..Len(Chars(tree.s)) |-> Sym(Chars(tree.s)[j])]
Sized(tree) == tree.t \in {"list", "sym"}

\* the dict built by `for key, value in zip(parms, args): self.map[key] = value`
RECURSIVE ZipMap(_, _, _)
ZipMap(m, keys, args) ==
    IF Len(keys) = 0 THEN m
    ELSE ZipMap(MapPut(m, KeyOf(keys[1]), args[1]), Tail1(keys), Tail1(args))

\* Frame.__init__: [st, e, frame]
NewFrame(parms, args, parent) ==
    IF ~Sized(parms) THEN [st |-> "err", e |-> "TypeError", frame |-> [parent |-> parent, map |-> EmptyMap]]
    ELSE IF Len(Iter(parms)) # Len(args)
    THEN [st |-> "err", e |-> "SchemeEvaluationError", frame |-> [parent |-> parent, map |-> EmptyMap]]
    ELSE IF \E j \in 1..Len(Iter(parms)) : ~Hashable(Iter(parms)[j])
    THEN [st |-> "err", e |-> "TypeError", frame |-> [parent |-> parent, map |-> EmptyMap]]
    ELSE [st |-> "ok", e |-> "",
          frame |-> [parent |-> parent, map |-> ZipMap(EmptyMap, Iter(parms), args)]]

\* Frame(parent = p)
ChildFrame(p) == [parent |-> p, map |-> EmptyMap]

\* the nearest frame of the chain of f that binds the key, 0 when none does
RECURSIVE Binder(_, _, _)
Binder(fs, f, key) ==
    IF KeyOf(key) \in DOMAIN fs[f].map THEN f
    ELSE IF fs[f].parent = 0 THEN 0
    ELSE Binder(fs, fs[f].parent, key)

\* the frames above f on its chain
RECURSIVE Ancestors(_, _)
Ancestors(fs, f) ==
    IF fs[f].parent = 0 THEN {} ELSE {fs[f].parent} \cup Ancestors(fs, fs[f].parent)

\* a Frame.add that, like Frame.update, writes to the nearest frame that
\* already binds the key
FrameAddNearest(fs, f, key, value) ==
    LET b == Binder(fs, f, key)
    IN  [fs EXCEPT ![IF b = 0 THEN f ELSE b].map = MapPut(@, KeyOf(key), value)]

\* Frame.add
FrameAdd(fs, f, key, value) == [fs EXCEPT ![f].map = MapPut(@, KeyOf(key), value)]

\* Frame.get: None when no frame of the chain has the key
RECURSIVE FrameGet(_, _, _)
FrameGet(fs, f, key) ==
    IF KeyOf(key) \in DOMAIN fs[f].map THEN fs[f].map[KeyOf(key)]
    ELSE IF fs[f].parent = 0 THEN NoneV
    ELSE FrameGet(fs, fs[f].parent, key)

\* Frame.find
FrameFind(fs, f, key) == KeyOf(key) \in DOMAIN fs[f].map

\* Frame.delete: the frames after self.map.pop(key)
FrameDelete(fs, f, key) == [fs EXCEPT ![f].map = MapDel(@, KeyOf(key))]

\* Frame.update: the nearest frame of the chain with the key gets the value;
\* nothing happens when there is none
RECURSIVE FrameUpdate(_, _, _, _)
FrameUpdate(fs, f, key, value) ==
    IF KeyOf(key) \in DOMAIN fs[f].map THEN [fs EXCEPT ![f].map[KeyOf(key)] = value]
    ELSE IF fs[f].parent # 0 THEN FrameUpdate(fs, fs[f].parent, key, value)
    ELSE fs

\* init_frame = Frame(scheme_builtins.keys(), scheme_builtins.values())
InitFrameId == 1
init_frame ==
    [parent |-> 0,
     map |-> [key \in {Sym(BuiltinNames[j]) : j \in 1..Len(BuiltinNames)} |->
                 PrimV(CHOOSE j \in 1..Len(BuiltinNames) : BuiltinNames[j] = key.s)]]

\* global_frame = Frame(parent=init_frame) of the main block and of repl
GlobalFrameId == 2

\* ------------------------------------------------------------------------
\* The programs handed to evaluate, and the bounds of the model
\* ------------------------------------------------------------------------
\* top-level calls of evaluate in one run of the interpreter
MaxCalls == 1
\* the largest n of (loop n)
MaxN == 3
\* the largest number of operands of the forms of ArityPrograms
MaxArgs == 3

\* (define (loop n) (if (equal? n 0) 0 (loop (- n 1))))
LoopDef ==
    L(<<Sym("define"), L(<<Sym("loop"), Sym("n")>>),
        L(<<Sym("if"), L(<<Sym("equal?"), Sym("n"), Num(0)>>), Num(0),
            L(<<Sym("loop"), L(<<Sym("-"), Sym("n"), Num(1)>>)>>)>>)>>)
\* (begin (define (loop n) ...) (loop n)), n a number literal
LoopCall(n) == L(<<Sym("begin"), LoopDef, L(<<Sym("loop"), Num(n)>>)>>)
LoopPrograms == {LoopCall(n) : n \in 0..MaxN}

\* (op 1 ... 1) with k operands, for the special forms and the builtins
ArityForms == {"define", "lambda", "let", "set!", "if", "del", "begin"}
ArityBuiltins ==
    {">", "<", ">=", "<=", "equal?", "not", "car", "cdr", "list?", "length",
     "cons", "list-ref", "-", "/"}
Ones(k) == [j \in 1..k |-> Num(1)]
ArityProgram(op, k) == L(<<Sym(op)>> \o Ones(k))
ArityPrograms == {ArityProgram(op, k) : op \in ArityForms \cup ArityBuiltins, k \in 0..MaxArgs}

\* symbols and literals
LookupPrograms ==
    \* x
    { Sym("x")
    \* car
    , Sym("car")
    \* 1
    , Num(1)
    \* #f
    , Bool(FALSE)
    \* nil
    , NilLit
    \* ()
    , L(<<>>)
    }

\* (let ((x 1)) (begin (define x 2) x))
DefineInLet ==
    L(<<Sym("let"), L(<<L(<<Sym("x"), Num(1)>>)>>),
        L(<<Sym("begin"), L(<<Sym("define"), Sym("x"), Num(2)>>), Sym("x")>>)>>)
\* (let ((x 1)) (define x 2) x)
DefineInLetThreeOperands ==
    L(<<Sym("let"), L(<<L(<<Sym("x"), Num(1)>>)>>),
        L(<<Sym("define"), Sym("x"), Num(2)>>), Sym("x")>>)
\* (begin (define x 1) (let ((y 0)) (define x 2)) x)
DefineShadows ==
    L(<<Sym("begin"), L(<<Sym("define"), Sym("x"), Num(1)>>),
        L(<<Sym("let"), L(<<L(<<Sym("y"), Num(0)>>)>>),
            L(<<Sym("define"), Sym("x"), Num(2)>>)>>), Sym("x")>>)
\* define in the frame of the call and in frames below it
DefinePrograms ==
    \* (define x 1)
    { L(<<Sym("define"), Sym("x"), Num(1)>>)
    \* (define x #f)
    , L(<<Sym("define"), Sym("x"), Bool(FALSE)>>)
    \* (define x nil)
    , L(<<Sym("define"), Sym("x"), NilLit>>)
    \* (define x (begin))
    , L(<<Sym("define"), Sym("x"), L(<<Sym("begin")>>)>>)
    \* (define (f y) x)
    , L(<<Sym("define"), L(<<Sym("f"), Sym("y")>>), Sym("x")>>)
    \* (define car 2)
    , L(<<Sym("define"), Sym("car"), Num(2)>>)
    \* (define (f) 1 2)
    , L(<<Sym("define"), L(<<Sym("f")>>), Num(1), Num(2)>>)
    \* (define () 1)
    , L(<<Sym("define"), L(<<>>), Num(1)>>)
    \* (define nil 1)
    , L(<<Sym("define"), NilLit, Num(1)>>)
    \* (begin (define x (begin)) x)
    , L(<<Sym("begin"), L(<<Sym("define"), Sym("x"), L(<<Sym("begin")>>)>>),
          Sym("x")>>)
    \* (begin (define x #f) x)
    , L(<<Sym("begin"), L(<<Sym("define"), Sym("x"), Bool(FALSE)>>),
          Sym("x")>>)
    \* (begin (define x nil) x)
    , L(<<Sym("begin"), L(<<Sym("define"), Sym("x"), NilLit>>), Sym("x")>>)
    \* (begin (define car 2) car)
    , L(<<Sym("begin"), L(<<Sym("define"), Sym("car"), Num(2)>>),
          Sym("car")>>)
    , DefineInLet
    , DefineInLetThreeOperands
    , DefineShadows
    \* (begin (define x 1) (let ((y 0)) (begin (define x 2) x)))
    , L(<<Sym("begin"), L(<<Sym("define"), Sym("x"), Num(1)>>),
          L(<<Sym("let"), L(<<L(<<Sym("y"), Num(0)>>)>>),
              L(<<Sym("begin"), L(<<Sym("define"), Sym("x"), Num(2)>>),
                  Sym("x")>>)>>)>>)
    \* (begin (define x 1) (let ((y 0)) (define (x) 2)) x)
    , L(<<Sym("begin"), L(<<Sym("define"), Sym("x"), Num(1)>>),
          L(<<Sym("let"), L(<<L(<<Sym("y"), Num(0)>>)>>),
              L(<<Sym("define"), L(<<Sym("x")>>), Num(2)>>)>>), Sym("x")>>)
    \* (begin (define (f) (define x 2)) (define x 1) (f) x)
    , L(<<Sym("begin"),
          L(<<Sym("define"), L(<<Sym("f")>>),
              L(<<Sym("define"), Sym("x"), Num(2)>>)>>),
          L(<<Sym("define"), Sym("x"), Num(1)>>), L(<<Sym("f")>>), Sym("x")>>)
    }

\* set!
SetPrograms ==
    \* (set! x 2)
    { L(<<Sym("set!"), Sym("x"), Num(2)>>)
    \* (set! car 1)
    , L(<<Sym("set!"), Sym("car"), Num(1)>>)
    \* (set! x (del x))
    , L(<<Sym("set!"), Sym("x"), L(<<Sym("del"), Sym("x")>>)>>)
    \* (begin (define x 1) (set! x 2) x)
    , L(<<Sym("begin"), L(<<Sym("define"), Sym("x"), Num(1)>>),
          L(<<Sym("set!"), Sym("x"), Num(2)>>), Sym("x")>>)
    \* (begin (define x 1) (set! x (del x)) x)
    , L(<<Sym("begin"), L(<<Sym("define"), Sym("x"), Num(1)>>),
          L(<<Sym("set!"), Sym("x"), L(<<Sym("del"), Sym("x")>>)>>),
          Sym("x")>>)
    \* (begin (define x 1) (set! x (begin)) x)
    , L(<<Sym("begin"), L(<<Sym("define"), Sym("x"), Num(1)>>),
          L(<<Sym("set!"), Sym("x"), L(<<Sym("begin")>>)>>), Sym("x")>>)
    \* (begin (define x 1) (let ((y 0)) (set! x 2)) x)
    , L(<<Sym("begin"), L(<<Sym("define"), Sym("x"), Num(1)>>),
          L(<<Sym("let"), L(<<L(<<Sym("y"), Num(0)>>)>>),
              L(<<Sym("set!"), Sym("x"), Num(2)>>)>>), Sym("x")>>)
    \* (begin (define x 1) (let ((x 0)) (set! x 2)) x)
    , L(<<Sym("begin"), L(<<Sym("define"), Sym("x"), Num(1)>>),
          L(<<Sym("let"), L(<<L(<<Sym("x"), Num(0)>>)>>),
              L(<<Sym("set!"), Sym("x"), Num(2)>>)>>), Sym("x")>>)
    \* (begin (define x 1) (let ((x 0)) (set! x (del x))) x)
    , L(<<Sym("begin"), L(<<Sym("define"), Sym("x"), Num(1)>>),
          L(<<Sym("let"), L(<<L(<<Sym("x"), Num(0)>>)>>),
              L(<<Sym("set!"), Sym("x"), L(<<Sym("del"), Sym("x")>>)>>)>>),
          Sym("x")>>)
    \* (begin (define x 1) (let ((y 0)) (set! x (define x 2))) x)
    , L(<<Sym("begin"), L(<<Sym("define"), Sym("x"), Num(1)>>),
          L(<<Sym("let"), L(<<L(<<Sym("y"), Num(0)>>)>>),
              L(<<Sym("set!"), Sym("x"),
                  L(<<Sym("define"), Sym("x"), Num(2)>>)>>)>>), Sym("x")>>)
    \* (begin (define x (begin)) (set! x 2))
    , L(<<Sym("begin"), L(<<Sym("define"), Sym("x"), L(<<Sym("begin")>>)>>),
          L(<<Sym("set!"), Sym("x"), Num(2)>>)>>)
    \* (let ((y 1)) (set! x 2))
    , L(<<Sym("let"), L(<<L(<<Sym("y"), Num(1)>>)>>),
          L(<<Sym("set!"), Sym("x"), Num(2)>>)>>)
    \* (begin (set! car 1) (car 2))
    , L(<<Sym("begin"), L(<<Sym("set!"), Sym("car"), Num(1)>>),
          L(<<Sym("car"), Num(2)>>)>>)
    \* (begin (define (f) (set! x 2)) (define x 1) (let ((x 0)) (f)) x)
    , L(<<Sym("begin"),
          L(<<Sym("define"), L(<<Sym("f")>>),
              L(<<Sym("set!"), Sym("x"), Num(2)>>)>>),
          L(<<Sym("define"), Sym("x"), Num(1)>>),
          L(<<Sym("let"), L(<<L(<<Sym("x"), Num(0)>>)>>), L(<<Sym("f")>>)>>),
          Sym("x")>>)
    }

\* (begin (define x 1) (let ((y 2)) (del x)))
DelNotLocal ==
    L(<<Sym("begin"), L(<<Sym("define"), Sym("x"), Num(1)>>),
        L(<<Sym("let"), L(<<L(<<Sym("y"), Num(2)>>)>>),
            L(<<Sym("del"), Sym("x")>>)>>)>>)
\* (begin (define x 1) (let ((x 2)) (begin (del x) x)))
DelUnshadows ==
    L(<<Sym("begin"), L(<<Sym("define"), Sym("x"), Num(1)>>),
        L(<<Sym("let"), L(<<L(<<Sym("x"), Num(2)>>)>>),
            L(<<Sym("begin"), L(<<Sym("del"), Sym("x")>>), Sym("x")>>)>>)>>)
\* del
DelPrograms ==
    \* (del x)
    { L(<<Sym("del"), Sym("x")>>)
    \* (del car)
    , L(<<Sym("del"), Sym("car")>>)
    \* (del (x))
    , L(<<Sym("del"), L(<<Sym("x")>>)>>)
    \* (begin (define x 1) (del x))
    , L(<<Sym("begin"), L(<<Sym("define"), Sym("x"), Num(1)>>),
          L(<<Sym("del"), Sym("x")>>)>>)
    \* (begin (define x 1) (del x) x)
    , L(<<Sym("begin"), L(<<Sym("define"), Sym("x"), Num(1)>>),
          L(<<Sym("del"), Sym("x")>>), Sym("x")>>)
    \* (let ((x 1)) (del x))
    , L(<<Sym("let"), L(<<L(<<Sym("x"), Num(1)>>)>>),
          L(<<Sym("del"), Sym("x")>>)>>)
    , DelNotLocal
    , DelUnshadows
    \* (begin (define x 1) (let ((x 2)) (del x)) x)
    , L(<<Sym("begin"), L(<<Sym("define"), Sym("x"), Num(1)>>),
          L(<<Sym("let"), L(<<L(<<Sym("x"), Num(2)>>)>>),
              L(<<Sym("del"), Sym("x")>>)>>), Sym("x")>>)
    \* (begin (define x (begin)) (del x))
    , L(<<Sym("begin"), L(<<Sym("define"), Sym("x"), L(<<Sym("begin")>>)>>),
          L(<<Sym("del"), Sym("x")>>)>>)
    \* (begin (define (f x) (begin (del x) x)) (define x 1) (f 2))
    , L(<<Sym("begin"),
          L(<<Sym("define"), L(<<Sym("f"), Sym("x")>>),
              L(<<Sym("begin"), L(<<Sym("del"), Sym("x")>>), Sym("x")>>)>>),
          L(<<Sym("define"), Sym("x"), Num(1)>>), L(<<Sym("f"), Num(2)>>)>>)
    }

\* (begin (define x 2) (let ((x 1) (y x)) y))
LetParallel ==
    L(<<Sym("begin"), L(<<Sym("define"), Sym("x"), Num(2)>>),
        L(<<Sym("let"),
            L(<<L(<<Sym("x"), Num(1)>>), L(<<Sym("y"), Sym("x")>>)>>),
            Sym("y")>>)>>)
\* (begin (define x 2) (let ((x 1)) 0) x)
LetNoLeak ==
    L(<<Sym("begin"), L(<<Sym("define"), Sym("x"), Num(2)>>),
        L(<<Sym("let"), L(<<L(<<Sym("x"), Num(1)>>)>>), Num(0)>>), Sym("x")>>)
\* let
LetPrograms ==
    \* (let () 1)
    { L(<<Sym("let"), L(<<>>), Num(1)>>)
    \* (let ((x 1)) x)
    , L(<<Sym("let"), L(<<L(<<Sym("x"), Num(1)>>)>>), Sym("x")>>)
    \* (let ((x 1) (y 2)) (+ x y))
    , L(<<Sym("let"),
          L(<<L(<<Sym("x"), Num(1)>>), L(<<Sym("y"), Num(2)>>)>>),
          L(<<Sym("+"), Sym("x"), Sym("y")>>)>>)
    \* (let ((x 1) (y x)) y)
    , L(<<Sym("let"),
          L(<<L(<<Sym("x"), Num(1)>>), L(<<Sym("y"), Sym("x")>>)>>),
          Sym("y")>>)
    , LetParallel
    \* (begin (define x 2) (let ((x 1) (x 0)) x))
    , L(<<Sym("begin"), L(<<Sym("define"), Sym("x"), Num(2)>>),
          L(<<Sym("let"),
              L(<<L(<<Sym("x"), Num(1)>>), L(<<Sym("x"), Num(0)>>)>>),
              Sym("x")>>)>>)
    \* (begin (define x 2) (let ((y (define x 1))) x))
    , L(<<Sym("begin"), L(<<Sym("define"), Sym("x"), Num(2)>>),
          L(<<Sym("let"),
              L(<<L(<<Sym("y"), L(<<Sym("define"), Sym("x"), Num(1)>>)>>)>>),
              Sym("x")>>)>>)
    , LetNoLeak
    \* (let ((x 1)) (let ((y x) (x 2)) (+ x y)))
    , L(<<Sym("let"), L(<<L(<<Sym("x"), Num(1)>>)>>),
          L(<<Sym("let"),
              L(<<L(<<Sym("y"), Sym("x")>>), L(<<Sym("x"), Num(2)>>)>>),
              L(<<Sym("+"), Sym("x"), Sym("y")>>)>>)>>)
    \* (let ((x 1 2)) x)
    , L(<<Sym("let"), L(<<L(<<Sym("x"), Num(1), Num(2)>>)>>), Sym("x")>>)
    \* (let (x) 1)
    , L(<<Sym("let"), L(<<Sym("x")>>), Num(1)>>)
    \* (let x 1)
    , L(<<Sym("let"), Sym("x"), Num(1)>>)
    \* (let 1 2)
    , L(<<Sym("let"), Num(1), Num(2)>>)
    \* (let (1) 2)
    , L(<<Sym("let"), L(<<Num(1)>>), Num(2)>>)
    \* (let ((nil 1)) 2)
    , L(<<Sym("let"), L(<<L(<<NilLit, Num(1)>>)>>), Num(2)>>)
    \* (let (>=) 1)
    , L(<<Sym("let"), L(<<Sym(">=")>>), Num(1)>>)
    }

\* ((lambda (x) x))
TooFewArguments ==
    L(<<L(<<Sym("lambda"), L(<<Sym("x")>>), Sym("x")>>)>>)
\* ((lambda (x) x) 1 2)
TooManyArguments ==
    L(<<L(<<Sym("lambda"), L(<<Sym("x")>>), Sym("x")>>), Num(1), Num(2)>>)
\* (begin (define x 1) (define (f) x) (let ((x 2)) (f)))
LexicalCall ==
    L(<<Sym("begin"), L(<<Sym("define"), Sym("x"), Num(1)>>),
        L(<<Sym("define"), L(<<Sym("f")>>), Sym("x")>>),
        L(<<Sym("let"), L(<<L(<<Sym("x"), Num(2)>>)>>), L(<<Sym("f")>>)>>)>>)
\* (begin (define (f x) (lambda () x)) (define g (f 1)) (let ((x 2)) (g)))
ClosureOutlives ==
    L(<<Sym("begin"),
        L(<<Sym("define"), L(<<Sym("f"), Sym("x")>>),
            L(<<Sym("lambda"), L(<<>>), Sym("x")>>)>>),
        L(<<Sym("define"), Sym("g"), L(<<Sym("f"), Num(1)>>)>>),
        L(<<Sym("let"), L(<<L(<<Sym("x"), Num(2)>>)>>), L(<<Sym("g")>>)>>)>>)
\* lambda and the application of closures
ClosurePrograms ==
    \* (lambda (x) x)
    { L(<<Sym("lambda"), L(<<Sym("x")>>), Sym("x")>>)
    \* ((lambda (x) x) 1)
    , L(<<L(<<Sym("lambda"), L(<<Sym("x")>>), Sym("x")>>), Num(1)>>)
    \* ((lambda (x y) (- x y)) 2 1)
    , L(<<L(<<Sym("lambda"), L(<<Sym("x"), Sym("y")>>),
              L(<<Sym("-"), Sym("x"), Sym("y")>>)>>), Num(2), Num(1)>>)
    , TooFewArguments
    , TooManyArguments
    \* ((lambda () 1))
    , L(<<L(<<Sym("lambda"), L(<<>>), Num(1)>>)>>)
    \* ((lambda x x) 1)
    , L(<<L(<<Sym("lambda"), Sym("x"), Sym("x")>>), Num(1)>>)
    \* ((lambda 1 2))
    , L(<<L(<<Sym("lambda"), Num(1), Num(2)>>)>>)
    \* ((lambda ((x)) 1) 2)
    , L(<<L(<<Sym("lambda"), L(<<L(<<Sym("x")>>)>>), Num(1)>>), Num(2)>>)
    , LexicalCall
    \* (begin (define x 1) (define f (lambda () x)) ((lambda (x) (f)) 2))
    , L(<<Sym("begin"), L(<<Sym("define"), Sym("x"), Num(1)>>),
          L(<<Sym("define"), Sym("f"),
              L(<<Sym("lambda"), L(<<>>), Sym("x")>>)>>),
          L(<<L(<<Sym("lambda"), L(<<Sym("x")>>), L(<<Sym("f")>>)>>),
              Num(2)>>)>>)
    , ClosureOutlives
    \* (begin (define (f x) (lambda (y) (+ x y))) (define g (f 1)) (define x 2) (g 0))
    , L(<<Sym("begin"),
          L(<<Sym("define"), L(<<Sym("f"), Sym("x")>>),
              L(<<Sym("lambda"), L(<<Sym("y")>>),
                  L(<<Sym("+"), Sym("x"), Sym("y")>>)>>)>>),
          L(<<Sym("define"), Sym("g"), L(<<Sym("f"), Num(1)>>)>>),
          L(<<Sym("define"), Sym("x"), Num(2)>>), L(<<Sym("g"), Num(0)>>)>>)
    \* (begin (define (f x) (lambda () x)) (define g (f 1)) (define y (f 2)) (+ (g) (y)))
    , L(<<Sym("begin"),
          L(<<Sym("define"), L(<<Sym("f"), Sym("x")>>),
              L(<<Sym("lambda"), L(<<>>), Sym("x")>>)>>),
          L(<<Sym("define"), Sym("g"), L(<<Sym("f"), Num(1)>>)>>),
          L(<<Sym("define"), Sym("y"), L(<<Sym("f"), Num(2)>>)>>),
          L(<<Sym("+"), L(<<Sym("g")>>), L(<<Sym("y")>>)>>)>>)
    \* (begin (define (f x) (g)) (define (g) x) (f 1))
    , L(<<Sym("begin"),
          L(<<Sym("define"), L(<<Sym("f"), Sym("x")>>), L(<<Sym("g")>>)>>),
          L(<<Sym("define"), L(<<Sym("g")>>), Sym("x")>>),
          L(<<Sym("f"), Num(1)>>)>>)
    \* (begin (define x 0) (define (f x) (g)) (define (g) x) (f 1))
    , L(<<Sym("begin"), L(<<Sym("define"), Sym("x"), Num(0)>>),
          L(<<Sym("define"), L(<<Sym("f"), Sym("x")>>), L(<<Sym("g")>>)>>),
          L(<<Sym("define"), L(<<Sym("g")>>), Sym("x")>>),
          L(<<Sym("f"), Num(1)>>)>>)
    \* (begin (define (f x) (begin (set! x 2) x)) (define x 1) (+ (f 0) x))
    , L(<<Sym("begin"),
          L(<<Sym("define"), L(<<Sym("f"), Sym("x")>>),
              L(<<Sym("begin"), L(<<Sym("set!"), Sym("x"), Num(2)>>),
                  Sym("x")>>)>>), L(<<Sym("define"), Sym("x"), Num(1)>>),
          L(<<Sym("+"), L(<<Sym("f"), Num(0)>>), Sym("x")>>)>>)
    \* (begin (define (f x y) y) (f 1))
    , L(<<Sym("begin"),
          L(<<Sym("define"), L(<<Sym("f"), Sym("x"), Sym("y")>>), Sym("y")>>),
          L(<<Sym("f"), Num(1)>>)>>)
    \* (1 2)
    , L(<<Num(1), Num(2)>>)
    \* ((begin) 1)
    , L(<<L(<<Sym("begin")>>), Num(1)>>)
    \* (nil)
    , L(<<NilLit>>)
    \* (x 1)
    , L(<<Sym("x"), Num(1)>>)
    }

\* if, and, or, begin
ControlPrograms ==
    \* (if #t 1 2)
    { L(<<Sym("if"), Bool(TRUE), Num(1), Num(2)>>)
    \* (if #f 1 2)
    , L(<<Sym("if"), Bool(FALSE), Num(1), Num(2)>>)
    \* (if 0 1 2)
    , L(<<Sym("if"), Num(0), Num(1), Num(2)>>)
    \* (if nil 1 2)
    , L(<<Sym("if"), NilLit, Num(1), Num(2)>>)
    \* (if (begin) 1 2)
    , L(<<Sym("if"), L(<<Sym("begin")>>), Num(1), Num(2)>>)
    \* (if #t 1 x)
    , L(<<Sym("if"), Bool(TRUE), Num(1), Sym("x")>>)
    \* (if #f 1 x)
    , L(<<Sym("if"), Bool(FALSE), Num(1), Sym("x")>>)
    \* (and)
    , L(<<Sym("and")>>)
    \* (and 1 2)
    , L(<<Sym("and"), Num(1), Num(2)>>)
    \* (and 1 0 x)
    , L(<<Sym("and"), Num(1), Num(0), Sym("x")>>)
    \* (and 1 x)
    , L(<<Sym("and"), Num(1), Sym("x")>>)
    \* (or)
    , L(<<Sym("or")>>)
    \* (or 0 #f)
    , L(<<Sym("or"), Num(0), Bool(FALSE)>>)
    \* (or 0 1 x)
    , L(<<Sym("or"), Num(0), Num(1), Sym("x")>>)
    \* (or 0 x)
    , L(<<Sym("or"), Num(0), Sym("x")>>)
    \* (begin 1 2)
    , L(<<Sym("begin"), Num(1), Num(2)>>)
    \* (begin x 2)
    , L(<<Sym("begin"), Sym("x"), Num(2)>>)
    }

\* the builtins on numbers, pairs and lists
ListPrograms ==
    \* (+ 1 2 2)
    { L(<<Sym("+"), Num(1), Num(2), Num(2)>>)
    \* (+ 1 #t)
    , L(<<Sym("+"), Num(1), Bool(TRUE)>>)
    \* (+ 1 nil)
    , L(<<Sym("+"), Num(1), NilLit>>)
    \* (- 2 1 1)
    , L(<<Sym("-"), Num(2), Num(1), Num(1)>>)
    \* (- nil)
    , L(<<Sym("-"), NilLit>>)
    \* (* 2 2)
    , L(<<Sym("*"), Num(2), Num(2)>>)
    \* (* nil)
    , L(<<Sym("*"), NilLit>>)
    \* (/ 2)
    , L(<<Sym("/"), Num(2)>>)
    \* (/ 0)
    , L(<<Sym("/"), Num(0)>>)
    \* (/ 1 2)
    , L(<<Sym("/"), Num(1), Num(2)>>)
    \* (/ 1 0)
    , L(<<Sym("/"), Num(1), Num(0)>>)
    \* (/ 2 1 2)
    , L(<<Sym("/"), Num(2), Num(1), Num(2)>>)
    \* (+ (/ 1 2) (/ 1 2))
    , L(<<Sym("+"), L(<<Sym("/"), Num(1), Num(2)>>),
          L(<<Sym("/"), Num(1), Num(2)>>)>>)
    \* (equal? 1 (/ 2 2))
    , L(<<Sym("equal?"), Num(1), L(<<Sym("/"), Num(2), Num(2)>>)>>)
    \* (equal? nil nil)
    , L(<<Sym("equal?"), NilLit, NilLit>>)
    \* (equal? 1 nil)
    , L(<<Sym("equal?"), Num(1), NilLit>>)
    \* (equal? car car)
    , L(<<Sym("equal?"), Sym("car"), Sym("car")>>)
    \* (equal? (cons 1 2) (cons 1 2))
    , L(<<Sym("equal?"), L(<<Sym("cons"), Num(1), Num(2)>>),
          L(<<Sym("cons"), Num(1), Num(2)>>)>>)
    \* (< nil 1)
    , L(<<Sym("<"), NilLit, Num(1)>>)
    \* (< 2 1 nil)
    , L(<<Sym("<"), Num(2), Num(1), NilLit>>)
    \* (< 0 1 2)
    , L(<<Sym("<"), Num(0), Num(1), Num(2)>>)
    \* (>= 2 2 1)
    , L(<<Sym(">="), Num(2), Num(2), Num(1)>>)
    \* (<= 1 2 0)
    , L(<<Sym("<="), Num(1), Num(2), Num(0)>>)
    \* (> 2 1 0)
    , L(<<Sym(">"), Num(2), Num(1), Num(0)>>)
    \* (not 0)
    , L(<<Sym("not"), Num(0)>>)
    \* (not nil)
    , L(<<Sym("not"), NilLit>>)
    \* (not (begin))
    , L(<<Sym("not"), L(<<Sym("begin")>>)>>)
    \* (car (cons 1 2))
    , L(<<Sym("car"), L(<<Sym("cons"), Num(1), Num(2)>>)>>)
    \* (cdr (cons 1 2))
    , L(<<Sym("cdr"), L(<<Sym("cons"), Num(1), Num(2)>>)>>)
    \* (car 1)
    , L(<<Sym("car"), Num(1)>>)
    \* (cdr nil)
    , L(<<Sym("cdr"), NilLit>>)
    \* (car (list 1 2))
    , L(<<Sym("car"), L(<<Sym("list"), Num(1), Num(2)>>)>>)
    \* (cdr (list 1))
    , L(<<Sym("cdr"), L(<<Sym("list"), Num(1)>>)>>)
    \* (list)
    , L(<<Sym("list")>>)
    \* (list? (list 1 2))
    , L(<<Sym("list?"), L(<<Sym("list"), Num(1), Num(2)>>)>>)
    \* (list? (cons 1 2))
    , L(<<Sym("list?"), L(<<Sym("cons"), Num(1), Num(2)>>)>>)
    \* (list? nil)
    , L(<<Sym("list?"), NilLit>>)
    \* (list? 1)
    , L(<<Sym("list?"), Num(1)>>)
    \* (length (list 1 2))
    , L(<<Sym("length"), L(<<Sym("list"), Num(1), Num(2)>>)>>)
    \* (length nil)
    , L(<<Sym("length"), NilLit>>)
    \* (length (cons 1 2))
    , L(<<Sym("length"), L(<<Sym("cons"), Num(1), Num(2)>>)>>)
    \* (length 1)
    , L(<<Sym("length"), Num(1)>>)
    \* (list-ref (list 1 2) 1)
    , L(<<Sym("list-ref"), L(<<Sym("list"), Num(1), Num(2)>>), Num(1)>>)
    \* (list-ref (list 1 2) 2)
    , L(<<Sym("list-ref"), L(<<Sym("list"), Num(1), Num(2)>>), Num(2)>>)
    \* (list-ref (list 1 2) (- 1))
    , L(<<Sym("list-ref"), L(<<Sym("list"), Num(1), Num(2)>>),
          L(<<Sym("-"), Num(1)>>)>>)
    \* (list-ref (list 1 2) (/ 1 2))
    , L(<<Sym("list-ref"), L(<<Sym("list"), Num(1), Num(2)>>),
          L(<<Sym("/"), Num(1), Num(2)>>)>>)
    \* (list-ref (cons 1 2) 0)
    , L(<<Sym("list-ref"), L(<<Sym("cons"), Num(1), Num(2)>>), Num(0)>>)
    \* (list-ref (cons 1 2) 1)
    , L(<<Sym("list-ref"), L(<<Sym("cons"), Num(1), Num(2)>>), Num(1)>>)
    \* (list-ref nil 0)
    , L(<<Sym("list-ref"), NilLit, Num(0)>>)
    \* (list-ref 1 0)
    , L(<<Sym("list-ref"), Num(1), Num(0)>>)
    \* (list-ref (list 1) nil)
    , L(<<Sym("list-ref"), L(<<Sym("list"), Num(1)>>), NilLit>>)
    \* (append)
    , L(<<Sym("append")>>)
    \* (append (list 1) (list 2))
    , L(<<Sym("append"), L(<<Sym("list"), Num(1)>>),
          L(<<Sym("list"), Num(2)>>)>>)
    \* (append nil (list 1) nil)
    , L(<<Sym("append"), NilLit, L(<<Sym("list"), Num(1)>>), NilLit>>)
    \* (append (list 1) 2)
    , L(<<Sym("append"), L(<<Sym("list"), Num(1)>>), Num(2)>>)
    \* (append (cons 1 2))
    , L(<<Sym("append"), L(<<Sym("cons"), Num(1), Num(2)>>)>>)
    \* (length (append (list 1 2) (list 0)))
    , L(<<Sym("length"),
          L(<<Sym("append"), L(<<Sym("list"), Num(1), Num(2)>>),
              L(<<Sym("list"), Num(0)>>)>>)>>)
    \* (car (cdr (append (list 1) (list 2))))
    , L(<<Sym("car"),
          L(<<Sym("cdr"),
              L(<<Sym("append"), L(<<Sym("list"), Num(1)>>),
                  L(<<Sym("list"), Num(2)>>)>>)>>)>>)
    }

Programs ==
    LookupPrograms \cup DefinePrograms \cup SetPrograms \cup DelPrograms
    \cup LetPrograms \cup ClosurePrograms \cup ControlPrograms \cup ListPrograms
    \cup LoopPrograms \cup ArityPrograms

VARIABLES
    frames,     \* the Frame objects: frames[1] is init_frame
    funcs,      \* the Functions objects: [parameters, body, frame]
    pairs,      \* the Pair objects: [car, cdr]
    stack,      \* the active invocations of evaluate, the innermost last
    ret,        \* the value the invocation that just returned hands its caller
    result,     \* the outcome of the last top-level call of evaluate
    prog,       \* the tree of the last top-level call
    env,        \* the frame of the last top-level call
    ncalls,     \* the number of top-level calls made
    tokens,     \* the token list handed to parse
    parsed      \* the outcome of parse(tokens)

vars == <<frames, funcs, pairs, stack, ret, result, prog, env, ncalls, tokens, parsed>>

NotParsed == [st |-> "none", tree |-> NilLit]
NoRet == [has |-> FALSE, v |-> NoneV]
Act(tree, frame) ==
    [tree |-> tree, frame |-> frame, pc |-> "start", i |-> 0, acc |-> <<>>, aux |-> 0]

Init ==
    /\ frames = <<init_frame, ChildFrame(InitFrameId)>>
    /\ funcs = <<>>
    /\ pairs = <<>>
    /\ stack = <<>>
    /\ ret = NoRet
    /\ result = [st |-> "none", v |-> NoneV]
    /\ prog = NilLit
    /\ env = 0
    /\ ncalls = 0
    /\ tokens = <<>>
    /\ parsed = NotParsed

Running == stack # <<>>
Top == stack[Len(stack)]
AtStart == Running /\ Top.pc = "start"
At(pc) == Running /\ Top.pc = pc /\ ret.has
Heap == <<frames, funcs, pairs>>
Call_ == <<prog, env, ncalls, tokens, parsed>>

\* `return v`: the invocation ends and its caller, if any, goes on with v
Return(v) ==
    /\ stack' = SubSeq(stack, 1, Len(stack) - 1)
    /\ IF Len(stack) = 1
       THEN ret' = NoRet /\ result' = [st |-> "value", v |-> v]
       ELSE ret' = [has |-> TRUE, v |-> v] /\ UNCHANGED result

\* `raise e`: no invocation catches, the top-level call fails with e
Raise(e) ==
    /\ stack' = <<>>
    /\ ret' = NoRet
    /\ result' = [st |-> e, v |-> NoneV]

\* the invocation moves to `pc` with index i and calls evaluate(tree, frame)
Eval(pc, i, tree, frame) ==
    /\ stack' = Append([stack EXCEPT ![Len(stack)].pc = pc, ![Len(stack)].i = i],
                       Act(tree, frame))
    /\ ret' = NoRet
    /\ UNCHANGED result

\* evaluate(tree, frame) called from outside with frame None (e = 0: a new
\* child of init_frame) or with the session's global frame
Call(p, e) ==
    /\ ~Running
    /\ ncalls < MaxCalls
    /\ frames' = IF e = 0 THEN Append(frames, ChildFrame(InitFrameId)) ELSE frames
    /\ stack' = <<Act(p, IF e = 0 THEN Len(frames) + 1 ELSE e)>>
    /\ env' = IF e = 0 THEN Len(frames) + 1 ELSE e
    /\ prog' = p
    /\ ncalls' = ncalls + 1
    /\ result' = [st |-> "running", v |-> NoneV]
    /\ ret' = NoRet
    /\ UNCHANGED <<funcs, pairs, tokens, parsed>>

\* if isinstance(tree, str)
EvalSymbol ==
    /\ AtStart /\ IsStr(Top.tree)
    /\ LET value == FrameGet(frames, Top.frame, Top.tree)
       IN  IF value = NoneV THEN Raise("SchemeNameError") ELSE Return(value)
    /\ UNCHANGED <<Heap, Call_>>

\* if not isinstance(tree, list): return tree
EvalLiteral ==
    /\ AtStart /\ ~IsStr(Top.tree) /\ ~IsList(Top.tree)
    /\ Return(LiteralValue(Top.tree))
    /\ UNCHANGED <<Heap, Call_>>

\* if len(tree) < 1
EvalEmpty ==
    /\ AtStart /\ IsList(Top.tree) /\ Len(Top.tree.xs) < 1
    /\ Raise("SchemeEvaluationError")
    /\ UNCHANGED <<Heap, Call_>>

SpecialForms == {"define", "lambda", "if", "and", "or", "begin", "del", "let", "set!"}
AtForm(name) == AtStart /\ IsOp(Top.tree, name)
rest == Rest(Top.tree)

\* op == 'define'
Define ==
    /\ AtForm("define")
    /\ IF Len(rest) # 2
       THEN Raise("SchemeEvaluationError") /\ UNCHANGED Heap
       ELSE IF IsList(rest[1])
       THEN IF Len(rest[1].xs) = 0
            THEN Raise("IndexError") /\ UNCHANGED Heap
            ELSE /\ funcs' = Append(funcs, [parameters |-> L(Tail1(rest[1].xs)),
                                            body |-> rest[2], frame |-> Top.frame])
                 /\ UNCHANGED pairs
                 /\ IF Hashable(rest[1].xs[1])
                    THEN /\ frames' = FrameAdd(frames, Top.frame, rest[1].xs[1],
                                               ClosV(Len(funcs) + 1))
                         /\ Return(ClosV(Len(funcs) + 1))
                    ELSE Raise("TypeError") /\ UNCHANGED frames
       ELSE Eval("define", 0, rest[2], Top.frame) /\ UNCHANGED Heap
    /\ UNCHANGED Call_

\* frame.add(name, expr); return expr
DefineBind ==
    /\ At("define")
    /\ IF Hashable(rest[1])
       THEN frames' = FrameAdd(frames, Top.frame, rest[1], ret.v) /\ Return(ret.v)
       ELSE Raise("TypeError") /\ UNCHANGED frames
    /\ UNCHANGED <<funcs, pairs, Call_>>

\* op == 'lambda'
Lambda ==
    /\ AtForm("lambda")
    /\ IF Len(rest) # 2
       THEN Raise("SchemeEvaluationError") /\ UNCHANGED funcs
       ELSE /\ funcs' = Append(funcs, [parameters |-> rest[1], body |-> rest[2],
                                       frame |-> Top.frame])
            /\ Return(ClosV(Len(funcs) + 1))
    /\ UNCHANGED <<frames, pairs, Call_>>

\* op == "if": the condition
If ==
    /\ AtForm("if")
    /\ IF Len(rest) # 3
       THEN Raise("SchemeEvaluationError")
       ELSE Eval("if_cond", 0, rest[1], Top.frame)
    /\ UNCHANGED <<Heap, Call_>>

\* return evaluate(true_exp, frame) / return evaluate(false_exp, frame)
IfBranch ==
    /\ At("if_cond")
    /\ Eval("if_ret", 0, IF Truthy(ret.v) THEN rest[2] ELSE rest[3], Top.frame)
    /\ UNCHANGED <<Heap, Call_>>

IfReturn ==
    /\ At("if_ret")
    /\ Return(ret.v)
    /\ UNCHANGED <<Heap, Call_>>

\* op == "and"
And ==
    /\ AtForm("and")
    /\ IF Len(rest) = 0 THEN Return(BoolV(TRUE)) ELSE Eval("and", 1, rest[1], Top.frame)
    /\ UNCHANGED <<Heap, Call_>>

AndNext ==
    /\ At("and")
    /\ IF ~Truthy(ret.v) THEN Return(BoolV(FALSE))
       ELSE IF Top.i = Len(rest) THEN Return(BoolV(TRUE))
       ELSE Eval("and", Top.i + 1, rest[Top.i + 1], Top.frame)
    /\ UNCHANGED <<Heap, Call_>>

\* op == "or"
Or ==
    /\ AtForm("or")
    /\ IF Len(rest) = 0 THEN Return(BoolV(FALSE)) ELSE Eval("or", 1, rest[1], Top.frame)
    /\ UNCHANGED <<Heap, Call_>>

OrNext ==
    /\ At("or")
    /\ IF Truthy(ret.v) THEN Return(BoolV(TRUE))
       ELSE IF Top.i = Len(rest) THEN Return(BoolV(FALSE))
       ELSE Eval("or", Top.i + 1, rest[Top.i + 1], Top.frame)
    /\ UNCHANGED <<Heap, Call_>>

\* op == "begin": value = None, then the loop
BeginForm ==
    /\ AtForm("begin")
    /\ IF Len(rest) = 0 THEN Return(NoneV) ELSE Eval("begin", 1, rest[1], Top.frame)
    /\ UNCHANGED <<Heap, Call_>>

BeginNext ==
    /\ At("begin")
    /\ IF Top.i = Len(rest) THEN Return(ret.v)
       ELSE Eval("begin", Top.i + 1, rest[Top.i + 1], Top.frame)
    /\ UNCHANGED <<Heap, Call_>>

\* a del that searches the chain and deletes the nearest binding
DelNearest ==
    /\ AtForm("del")
    /\ IF Len(rest) # 1 THEN Raise("SchemeEvaluationError") /\ UNCHANGED frames
       ELSE IF ~Hashable(rest[1]) THEN Raise("TypeError") /\ UNCHANGED frames
       ELSE IF Binder(frames, Top.frame, rest[1]) # 0
       THEN /\ frames' = FrameDelete(frames, Binder(frames, Top.frame, rest[1]), rest[1])
            /\ Return(FrameGet(frames, Top.frame, rest[1]))
       ELSE Raise("SchemeNameError") /\ UNCHANGED frames
    /\ UNCHANGED <<funcs, pairs, Call_>>

\* op == "del"
Del ==
    /\ AtForm("del")
    /\ IF Len(rest) # 1 THEN Raise("SchemeEvaluationError") /\ UNCHANGED frames
       ELSE IF ~Hashable(rest[1]) THEN Raise("TypeError") /\ UNCHANGED frames
       ELSE IF FrameFind(frames, Top.frame, rest[1])
       THEN /\ frames' = FrameDelete(frames, Top.frame, rest[1])
            /\ Return(frames[Top.frame].map[KeyOf(rest[1])])
       ELSE Raise("SchemeNameError") /\ UNCHANGED frames
    /\ UNCHANGED <<funcs, pairs, Call_>>

\* a let whose initializers are evaluated in the inner frame, each seeing
\* the bindings made before it
LetItemSequential(i, inner) ==
    IF ~Sized(rest[1]) THEN Raise("TypeError")
    ELSE IF i > Len(Iter(rest[1]))
    THEN /\ stack' = Append([stack EXCEPT ![Len(stack)].pc = "let_ret",
                                          ![Len(stack)].i = i,
                                          ![Len(stack)].aux = inner],
                            Act(rest[2], inner))
         /\ ret' = NoRet
         /\ UNCHANGED result
    ELSE LET item == Iter(rest[1])[i]
         IN  IF ~Sized(item) THEN Raise("TypeError")
             ELSE IF Len(Iter(item)) # 2 THEN Raise("SchemeEvaluationError")
             ELSE /\ stack' = Append([stack EXCEPT ![Len(stack)].pc = "let_bind",
                                                   ![Len(stack)].i = i,
                                                   ![Len(stack)].aux = inner],
                                     Act(Iter(item)[2], inner))
                  /\ ret' = NoRet
                  /\ UNCHANGED result

\* the for loop of "let" at item i, inner_frame being frame `inner`: the
\* initializer of item i is evaluated in the frame of the let, and after the
\* last item `return evaluate(body, inner_frame)`
LetItem(i, inner) ==
    IF ~Sized(rest[1]) THEN Raise("TypeError")
    ELSE IF i > Len(Iter(rest[1]))
    THEN /\ stack' = Append([stack EXCEPT ![Len(stack)].pc = "let_ret",
                                          ![Len(stack)].i = i,
                                          ![Len(stack)].aux = inner],
                            Act(rest[2], inner))
         /\ ret' = NoRet
         /\ UNCHANGED result
    ELSE LET item == Iter(rest[1])[i]
         IN  IF ~Sized(item) THEN Raise("TypeError")
             ELSE IF Len(Iter(item)) # 2 THEN Raise("SchemeEvaluationError")
             ELSE /\ stack' = Append([stack EXCEPT ![Len(stack)].pc = "let_bind",
                                                   ![Len(stack)].i = i,
                                                   ![Len(stack)].aux = inner],
                                     Act(Iter(item)[2], Top.frame))
                  /\ ret' = NoRet
                  /\ UNCHANGED result

\* op == "let": inner_frame = Frame(parent=frame), then the first item
Let ==
    /\ AtForm("let")
    /\ IF Len(rest) # 2
       THEN Raise("SchemeEvaluationError") /\ UNCHANGED frames
       ELSE /\ frames' = Append(frames, ChildFrame(Top.frame))
            /\ LetItem(1, Len(frames) + 1)
    /\ UNCHANGED <<funcs, pairs, Call_>>

\* inner_frame.add(var, val), then the next item
LetBind ==
    /\ At("let_bind")
    /\ LET var == Iter(Iter(rest[1])[Top.i])[1]
       IN  IF Hashable(var)
           THEN /\ frames' = FrameAdd(frames, Top.aux, var, ret.v)
                /\ LetItem(Top.i + 1, Top.aux)
           ELSE Raise("TypeError") /\ UNCHANGED frames
    /\ UNCHANGED <<funcs, pairs, Call_>>

LetReturn ==
    /\ At("let_ret")
    /\ Return(ret.v)
    /\ UNCHANGED <<Heap, Call_>>

\* op == "set!": the lookup that decides on SchemeNameError, then the operand
SetForm ==
    /\ AtForm("set!")
    /\ IF Len(rest) # 2 THEN Raise("SchemeEvaluationError")
       ELSE IF ~Hashable(rest[1]) THEN Raise("TypeError")
       ELSE IF FrameGet(frames, Top.frame, rest[1]) = NoneV THEN Raise("SchemeNameError")
       ELSE Eval("set", 0, rest[2], Top.frame)
    /\ UNCHANGED <<Heap, Call_>>

\* frame.update(var, value); return value
SetUpdate ==
    /\ At("set")
    /\ frames' = FrameUpdate(frames, Top.frame, rest[1], ret.v)
    /\ Return(ret.v)
    /\ UNCHANGED <<funcs, pairs, Call_>>

\* exps = [evaluate(exp, frame) for exp in tree]: the first element
Apply ==
    /\ AtStart /\ IsList(Top.tree) /\ Len(Top.tree.xs) >= 1
    /\ \A name \in SpecialForms : ~IsOp(Top.tree, name)
    /\ Eval("app", 1, Top.tree.xs[1], Top.frame)
    /\ UNCHANGED <<Heap, Call_>>

\* the values of the elements evaluated so far
Exps == Append(Top.acc, ret.v)

\* ... the next element
ApplyArg ==
    /\ At("app") /\ Top.i < Len(Top.tree.xs)
    /\ stack' = Append([stack EXCEPT ![Len(stack)].i = Top.i + 1,
                                     ![Len(stack)].acc = Exps],
                       Act(Top.tree.xs[Top.i + 1], Top.frame))
    /\ ret' = NoRet
    /\ UNCHANGED <<result, Heap, Call_>>

AllEvaluated == At("app") /\ Top.i = Len(Top.tree.xs)

\* an application whose frame hangs off the frame of the caller
CallFrameDynamic(c, args) == NewFrame(funcs[c].parameters, args, Top.frame)

\* the frame of an application of closure c to args
CallFrame(c, args) == NewFrame(funcs[c].parameters, args, funcs[c].frame)

\* isinstance(func, Functions): tree = func.body; frame = Frame(...) and the
\* while loop of this invocation goes round again
ApplyClosure ==
    /\ AllEvaluated /\ Exps[1].k = "clos"
    /\ LET nf == CallFrame(Exps[1].n, Tail1(Exps))
       IN  IF nf.st = "err"
           THEN Raise(nf.e) /\ UNCHANGED frames
           ELSE /\ frames' = Append(frames, nf.frame)
                /\ stack' = [stack EXCEPT ![Len(stack)] =
                                Act(funcs[Exps[1].n].body, Len(frames) + 1)]
                /\ ret' = NoRet
                /\ UNCHANGED result
    /\ UNCHANGED <<funcs, pairs, Call_>>

\* callable(func): return func(exps)
ApplyBuiltin ==
    /\ AllEvaluated /\ Exps[1].k = "prim"
    /\ LET r == ApplyPrim(Exps[1].n, Tail1(Exps), pairs)
       IN  /\ pairs' = r.pairs
           /\ IF r.st = "ok" THEN Return(r.v) ELSE Raise(r.e)
    /\ UNCHANGED <<frames, funcs, Call_>>

\* neither: raise SchemeEvaluationError
ApplyOther ==
    /\ AllEvaluated /\ Exps[1].k \notin {"clos", "prim"}
    /\ Raise("SchemeEvaluationError")
    /\ UNCHANGED <<Heap, Call_>>

Step ==
    \/ EvalSymbol \/ EvalLiteral \/ EvalEmpty
    \/ Define \/ DefineBind \/ Lambda
    \/ If \/ IfBranch \/ IfReturn
    \/ And \/ AndNext \/ Or \/ OrNext
    \/ BeginForm \/ BeginNext
    \/ Del
    \/ Let \/ LetBind \/ LetReturn
    \/ SetForm \/ SetUpdate
    \/ Apply \/ ApplyArg \/ ApplyClosure \/ ApplyBuiltin \/ ApplyOther

Next ==
    \/ \E p \in Programs, e \in {0, GlobalFrameId} : Call(p, e)
    \/ Step

Spec == Init /\ [][Next]_vars

\* ------------------------------------------------------------------------
\* parse, as a function of the token list; indices count from 0 as in the
\* source, so token number `index` is tokens[index + 1]
\* ------------------------------------------------------------------------
\* the longest token list handed to parse
MaxLen == 4
Tokens == {"(", ")", "x", "1", "#t", "nil"}
TokenLists == UNION {[1..n -> Tokens] : n \in 0..MaxLen}

Parsed(tree, next) == [st |-> "ok", tree |-> tree, next |-> next]
ParseError(e) == [st |-> e, tree |-> NilLit, next |-> 0]

\* parse_expression(index), and the while loop of its '(' branch with the
\* expressions collected so far
RECURSIVE parse_expression(_, _), ParseItems(_, _, _)
parse_expression(toks, index) ==
    IF index >= Len(toks) THEN ParseError("IndexError")
    ELSE IF toks[index + 1] = "(" THEN ParseItems(toks, index + 1, <<>>)
    ELSE IF toks[index + 1] = ")" THEN ParseError("SchemeSyntaxError")
    ELSE Parsed(number_or_symbol(toks[index + 1]), index + 1)
ParseItems(toks, next_index, expressions) ==
    IF next_index < Len(toks) /\ toks[next_index + 1] # ")"
    THEN LET r == parse_expression(toks, next_index)
         IN  IF r.st # "ok" THEN r
             ELSE ParseItems(toks, r.next, Append(expressions, r.tree))
    ELSE IF next_index >= Len(toks) THEN ParseError("SchemeSyntaxError")
    ELSE Parsed(L(expressions), next_index + 1)

\* parse(tokens): [st, tree], st = "ok" or the name of the exception
parse(toks) ==
    LET r == parse_expression(toks, 0)
    IN  IF r.st # "ok" THEN [st |-> r.st, tree |-> NilLit]
        ELSE IF r.next # Len(toks) THEN [st |-> "SchemeSyntaxError", tree |-> NilLit]
        ELSE [st |-> "ok", tree |-> r.tree]

\* parse is a function of its argument alone: it is run on every token list
\* of at most MaxLen tokens
InitParse ==
    /\ tokens \in TokenLists
    /\ parsed = NotParsed
    /\ frames = <<init_frame, ChildFrame(InitFrameId)>>
    /\ funcs = <<>>
    /\ pairs = <<>>
    /\ stack = <<>>
    /\ ret = NoRet
    /\ result = [st |-> "none", v |-> NoneV]
    /\ prog = NilLit
    /\ env = 0
    /\ ncalls = 0

ParseTokens ==
    /\ parsed.st = "none"
    /\ parsed' = parse(tokens)
    /\ UNCHANGED <<Heap, stack, ret, result, prog, env, ncalls, tokens>>

SpecParse == InitParse /\ [][ParseTokens]_vars

\* ------------------------------------------------------------------------
\* The properties
\* ------------------------------------------------------------------------
X == Sym("x")
Y == Sym("y")
Value(v) == [st |-> "value", v |-> v]
Done == ~Running /\ result.st \notin {"none", "running"}

\* the step taken hands v to the caller of this invocation of evaluate
Returns(v) ==
    /\ stack' = SubSeq(stack, 1, Len(stack) - 1)
    /\ IF Len(stack) = 1 THEN result' = Value(v)
       ELSE ret' = [has |-> TRUE, v |-> v] /\ result' = result
\* the step taken raises e
Raises(e) == stack' = <<>> /\ result' = [st |-> e, v |-> NoneV]
\* the top-level call of program p, when it ends, ends with value v
Yields(p, v) == (Running /\ prog = p /\ stack' = <<>>) => result' = Value(v)
\* ... ends with exception e
Fails(p, e) == (Running /\ prog = p /\ stack' = <<>>) => result'.st = e
\* every frame but f is as it was, and no frame was made
OnlyFrameChanged(f) ==
    /\ Len(frames') = Len(frames)
    /\ \A g \in 1..Len(frames) : g # f => frames'[g] = frames[g]
    /\ frames'[f].parent = frames[f].parent

\* C1: the depth of the nesting of evaluate while (loop n) runs does not
\* grow with n: the depth that (loop 1), with its one tail call inside the
\* taken branch of the if, reaches (5: begin, the call and its body, the
\* branch, its operand, the operand's operand) is not exceeded for any n.
C1_TailCallsConstantStack == prog \in LoopPrograms => Len(stack) <= 5

\* C2: (set! name expr) in frame F raises SchemeNameError when no frame of
\* F's chain binds name; otherwise, when it completes, whatever expr did to
\* the frames, the nearest frame of F's chain that binds name holds the
\* value of expr under name, and the update gives no frame a binding it did
\* not have.
C2_SetUpdatesNearestBinding ==
    [][/\ (SetForm /\ Len(rest) = 2 /\ Hashable(rest[1])
              /\ Binder(frames, Top.frame, rest[1]) = 0)
            => Raises("SchemeNameError")
       /\ SetUpdate
            => /\ Binder(frames', Top.frame, rest[1]) # 0
               /\ frames'[Binder(frames', Top.frame, rest[1])].map[KeyOf(rest[1])] = ret.v
               /\ \A f \in 1..Len(frames) : DOMAIN frames'[f].map = DOMAIN frames[f].map
               /\ Returns(ret.v)]_vars

\* C3: the builtin frame keeps exactly the bindings installed at start-up,
\* whatever top-level calls are made.
C3_BuiltinFrameImmutable == frames[InitFrameId] = init_frame

\* C4: evaluating a symbol in frame F raises SchemeNameError if and only if
\* no frame of F's chain binds it; when one does, the value returned is the
\* one bound in the nearest such frame, whatever value that is.
C4_LookupFailsIffUnbound ==
    [][EvalSymbol
         => IF Binder(frames, Top.frame, Top.tree) = 0
            THEN Raises("SchemeNameError")
            ELSE Returns(frames[Binder(frames, Top.frame, Top.tree)].map[KeyOf(Top.tree)])]_vars

\* the effect of a define of name to value v in the frame F of the
\* invocation: F alone changes, and only at name; from F the name resolves
\* to F's own binding, holding v; from every ancestor it resolves as before
DefineEffect(name, v) ==
    /\ OnlyFrameChanged(Top.frame)
    /\ DOMAIN frames'[Top.frame].map = DOMAIN frames[Top.frame].map \cup {KeyOf(name)}
    /\ \A key \in DOMAIN frames[Top.frame].map \ {KeyOf(name)} :
          frames'[Top.frame].map[key] = frames[Top.frame].map[key]
    /\ Binder(frames', Top.frame, name) = Top.frame
    /\ FrameGet(frames', Top.frame, name) = v
    /\ \A a \in Ancestors(frames, Top.frame) :
          /\ Binder(frames', a, name) = Binder(frames, a, name)
          /\ FrameGet(frames', a, name) = FrameGet(frames, a, name)
    /\ Returns(v)
\* the two steps that bind: (define name expr) once expr has its value, and
\* (define (name param...) body)
DefinesValue == DefineBind /\ Hashable(rest[1])
DefinesFunction ==
    Define /\ Len(rest) = 2 /\ IsList(rest[1]) /\ Len(rest[1].xs) > 0 /\ Hashable(rest[1].xs[1])
DefineLocal ==
    /\ DefinesValue => DefineEffect(rest[1], ret.v)
    /\ DefinesFunction => DefineEffect(rest[1].xs[1], ClosV(Len(funcs) + 1))

\* C5, as amended: define in frame F inserts or overwrites the binding in F
\* alone, whether or not an ancestor binds the name; ancestors are unchanged,
\* from F the name then resolves to F's binding with the new value, and from
\* an ancestor to what it resolved to before.  (let ((x 1)) (begin (define x
\* 2) x)) yields 2, and (begin (define x 1) (let ((y 0)) (define x 2)) x)
\* yields 1: the outer x is unaltered.
C5_DefineBindsLocally ==
    [][/\ DefineLocal
       /\ Yields(DefineInLet, IntV(2))
       /\ Yields(DefineShadows, IntV(1))]_vars

\* C5 as first stated, with its example (let ((x 1)) (define x 2) x)
\* yielding 2.
C5_DefineBindsLocallyAsStated ==
    [][/\ DefineLocal
       /\ Yields(DefineInLetThreeOperands, IntV(2))
       /\ Yields(DefineShadows, IntV(1))]_vars

\* a define in a frame has shadowed the x of its parent, which is unchanged
C5_Witness ==
    /\ Done /\ prog = DefineShadows /\ result = Value(IntV(1))
    /\ \E f \in 1..Len(frames) :
          /\ frames[f].parent = env
          /\ X \in DOMAIN frames[f].map /\ frames[f].map[X] = IntV(2)
          /\ X \in DOMAIN frames[env].map /\ frames[env].map[X] = IntV(1)

\* the parameters of a closure as keys, and the argument each is bound to
\* (the last one, should a name occur twice)
ParamKeys(c) == {KeyOf(Iter(funcs[c].parameters)[j]) : j \in 1..Len(Iter(funcs[c].parameters))}
BoundArg(c, key, args) ==
    args[CHOOSE j \in 1..Len(args) :
            /\ KeyOf(Iter(funcs[c].parameters)[j]) = key
            /\ \A l \in (j + 1)..Len(args) : KeyOf(Iter(funcs[c].parameters)[l]) # key]

\* C6: an application of a closure binds the arguments in a new frame whose
\* parent is the frame the closure captured when lambda or define made it,
\* not the frame of the caller, and the body runs in that frame; no step
\* changes the parameters, body or frame of a closure.  A free variable of
\* the body so resolves in the defining scope: with the caller binding x to
\* 2, the closures of LexicalCall and ClosureOutlives still yield 1.
C6_LexicalScope ==
    [][/\ Len(funcs') >= Len(funcs)
       /\ \A c \in 1..Len(funcs) : funcs'[c] = funcs[c]
       /\ ((Lambda /\ Len(rest) = 2) \/ DefinesFunction)
            => /\ Len(funcs') = Len(funcs) + 1
               /\ funcs'[Len(funcs')].frame = Top.frame
       /\ (ApplyClosure /\ Running')
            => /\ Len(frames') = Len(frames) + 1
               /\ \A g \in 1..Len(frames) : frames'[g] = frames[g]
               /\ frames'[Len(frames')].parent = funcs[Exps[1].n].frame
               /\ DOMAIN frames'[Len(frames')].map = ParamKeys(Exps[1].n)
               /\ \A key \in ParamKeys(Exps[1].n) :
                     frames'[Len(frames')].map[key] = BoundArg(Exps[1].n, key, Tail1(Exps))
               /\ Len(stack') = Len(stack)
               /\ stack'[Len(stack)].tree = funcs[Exps[1].n].body
               /\ stack'[Len(stack)].frame = Len(frames')
       /\ Yields(LexicalCall, IntV(1))
       /\ Yields(ClosureOutlives, IntV(1))]_vars

\* a closure made by a call that has returned was applied from a frame that
\* binds x to 2, in a frame below the one it captured, which binds x to 1
C6_Witness ==
    /\ Done /\ prog = ClosureOutlives /\ result = Value(IntV(1))
    /\ \E c \in 1..Len(funcs), f, g \in 1..Len(frames) :
          /\ frames[f].parent = funcs[c].frame
          /\ frames[f].map = EmptyMap
          /\ X \in DOMAIN frames[funcs[c].frame].map
          /\ frames[funcs[c].frame].map[X] = IntV(1)
          /\ frames[g].parent = env
          /\ X \in DOMAIN frames[g].map /\ frames[g].map[X] = IntV(2)

\* the items (n1 e1) ... (nk ek) of the let the invocation is evaluating
LetItems == Iter(rest[1])
\* C9: a let in frame F makes exactly one new frame, with parent F; every
\* initializer is evaluated in F; each binding goes into the new frame and
\* nowhere else, F included; the body is evaluated in the new frame once
\* all k bindings are in it.  With x bound to 2 outside, (let ((x 1) (y x))
\* y) yields 2, and x is still 2 after (let ((x 1)) 0).
C9_LetBindsInOneNewFrame ==
    [][/\ (Let /\ Len(rest) = 2)
            => /\ Len(frames') = Len(frames) + 1
               /\ \A g \in 1..Len(frames) : frames'[g] = frames[g]
               /\ frames'[Len(frames')] = ChildFrame(Top.frame)
               /\ Running' => stack'[Len(stack)].aux = Len(frames')
       /\ (LetBind /\ Running')
            => /\ OnlyFrameChanged(Top.aux)
               /\ Top.aux # Top.frame
               /\ frames'[Top.aux].map =
                     MapPut(frames[Top.aux].map, KeyOf(Iter(LetItems[Top.i])[1]), ret.v)
               /\ stack'[Len(stack)].aux = Top.aux
       /\ ((Let \/ LetBind) /\ Running')
            => /\ Len(stack') = Len(stack) + 1
               /\ frames'[stack'[Len(stack)].aux].parent = Top.frame
               /\ IF stack'[Len(stack)].pc = "let_bind"
                  THEN /\ stack'[Len(stack')].frame = Top.frame
                       /\ stack'[Len(stack')].tree = Iter(LetItems[stack'[Len(stack)].i])[2]
                  ELSE /\ stack'[Len(stack)].pc = "let_ret"
                       /\ stack'[Len(stack')].frame = stack'[Len(stack)].aux
                       /\ stack'[Len(stack')].tree = rest[2]
                       /\ DOMAIN frames'[stack'[Len(stack)].aux].map =
                             {KeyOf(Iter(LetItems[j])[1]) : j \in 1..Len(LetItems)}
       /\ Yields(LetParallel, IntV(2))
       /\ Yields(LetNoLeak, IntV(2))]_vars

\* a let has bound x and y in its frame, y to the outer x, and the outer x
\* is as it was
C9_Witness ==
    /\ Done /\ prog = LetParallel /\ result = Value(IntV(2))
    /\ \E f \in 1..Len(frames) :
          /\ frames[f].parent = env
          /\ DOMAIN frames[f].map = {X, Y}
          /\ frames[f].map[X] = IntV(1) /\ frames[f].map[Y] = IntV(2)
          /\ frames[env].map[X] = IntV(2)

\* C10: (del name) in frame F, name bound in F itself: the binding leaves F,
\* its value is returned, no other frame changes, and from F the name then
\* resolves as it does from F's parent.  Name not bound in F: SchemeNameError,
\* also when an ancestor binds it, and no frame changes.
C10_DelIsLocal ==
    [][/\ (Del /\ Len(rest) = 1 /\ Hashable(rest[1]))
            => IF KeyOf(rest[1]) \in DOMAIN frames[Top.frame].map
               THEN /\ Returns(frames[Top.frame].map[KeyOf(rest[1])])
                    /\ OnlyFrameChanged(Top.frame)
                    /\ frames'[Top.frame].map = MapDel(frames[Top.frame].map, KeyOf(rest[1]))
                    /\ KeyOf(rest[1]) \notin DOMAIN frames'[Top.frame].map
                    /\ Binder(frames', Top.frame, rest[1]) =
                          IF frames[Top.frame].parent = 0 THEN 0
                          ELSE Binder(frames, frames[Top.frame].parent, rest[1])
               ELSE Raises("SchemeNameError") /\ frames' = frames
       /\ Fails(DelNotLocal, "SchemeNameError")
       /\ Yields(DelUnshadows, IntV(1))]_vars

\* a del in a frame that bound x has made the x of its parent visible again
C10_Witness ==
    /\ Done /\ prog = DelUnshadows /\ result = Value(IntV(1))
    /\ \E f \in 1..Len(frames) :
          /\ frames[f].parent = env
          /\ frames[f].map = EmptyMap
          /\ FrameGet(frames, f, X) = IntV(1)

\* the prefix of toks of length n opens this many lists more than it closes
RECURSIVE Balance(_, _)
Balance(toks, n) ==
    IF n = 0 THEN 0
    ELSE Balance(toks, n - 1)
         + (IF toks[n] = "(" THEN 1 ELSE IF toks[n] = ")" THEN -1 ELSE 0)
UnmatchedClose(toks) == \E n \in 1..Len(toks) : Balance(toks, n) < 0
Unterminated(toks) == Balance(toks, Len(toks)) > 0
LeftOver(toks) == \E n \in 1..(Len(toks) - 1) : Balance(toks, n) = 0

\* C7: parse of any token list, the empty one included, returns one
\* expression or raises SchemeSyntaxError and nothing else; it raises
\* SchemeSyntaxError on an unmatched ")", on a list left open at the end of
\* the input, and on tokens after the first complete expression.
C7_ParseOkOrSyntaxError ==
    parsed.st # "none"
      => /\ parsed.st \in {"ok", "SchemeSyntaxError"}
         /\ (UnmatchedClose(tokens) \/ Unterminated(tokens) \/ LeftOver(tokens))
               => parsed.st = "SchemeSyntaxError"

\* the operand counts that are wrong for a special form or builtin
WrongArity(op, k) ==
    CASE op \in {"define", "lambda", "let", "set!", "cons", "list-ref"} -> k # 2
      [] op = "if" -> k # 3
      [] op \in {"del", "not", "car", "cdr", "list?", "length"} -> k # 1
      [] op = "begin" -> k < 1
      [] op \in {">", "<", ">=", "<=", "equal?"} -> k < 2
      [] OTHER -> k = 0

\* C8: a special form or builtin given a wrong number of operands, and a
\* closure applied to a number of arguments other than that of its
\* parameters, end in SchemeEvaluationError.
C8_WrongArityIsEvaluationError ==
    Done =>
      /\ \A op \in ArityForms \cup ArityBuiltins, k \in 0..MaxArgs :
            (prog = ArityProgram(op, k) /\ WrongArity(op, k))
               => result.st = "SchemeEvaluationError"
      /\ prog \in {TooFewArguments, TooManyArguments}
            => result.st = "SchemeEvaluationError"
====
